---- MODULE Spec2Model ----
(***************************************************************************)
(* hcl-to-yaml: the tokenizers (src/parser/lexer.ts and the tokenize of    *)
(* src/parser/parser.ts), the recursive-descent parser parseHCL and its    *)
(* top-level block placement, the directive parser, the generic validator  *)
(* and the conversion pipeline of the command-line program (src/app.ts).   *)
(*                                                                         *)
(* Text is a sequence of one-character strings, so that the regular        *)
(* expressions of the source can be evaluated character by character.      *)
(* A JavaScript string is therefore a sequence of characters; the empty    *)
(* string is << >>.                                                        *)
(***************************************************************************)
EXTENDS Integers, Sequences, FiniteSets, TLC

(***************************************************************************)
(* Character classes of the regular expressions.                           *)
(***************************************************************************)
LineTerminator == {"\n", "\r"}

WhiteSpace == {" ", "\t", "\n", "\r", "\f"}

Digit == {"0", "1", "2", "3", "4", "5", "6", "7", "8", "9"}

Letter ==
  {"a", "b", "c", "d", "e", "f", "g", "h", "i", "j", "k", "l", "m",
   "n", "o", "p", "q", "r", "s", "t", "u", "v", "w", "x", "y", "z",
   "A", "B", "C", "D", "E", "F", "G", "H", "I", "J", "K", "L", "M",
   "N", "O", "P", "Q", "R", "S", "T", "U", "V", "W", "X", "Y", "Z"}

\* \w of the regular expressions, which decides the word boundary \b
WordChar == Letter \cup Digit \cup {"_"}

\* [A-Za-z_]
IdentStart == Letter \cup {"_"}

\* [A-Za-z0-9_-]
IdentPart == Letter \cup Digit \cup {"_", "-"}

\* (\{|\}|\=|\[|\]|,)
SymbolChar == {"{", "}", "=", "[", "]", ","}

DigitVal(c) ==
  CASE c = "0" -> 0 [] c = "1" -> 1 [] c = "2" -> 2 [] c = "3" -> 3
    [] c = "4" -> 4 [] c = "5" -> 5 [] c = "6" -> 6 [] c = "7" -> 7
    [] c = "8" -> 8 [] c = "9" -> 9

(***************************************************************************)
(* Helpers on text.                                                        *)
(***************************************************************************)
\* s.slice(i - 1, j): the characters i..j of s (1-based, inclusive)
Slice(s, i, j) == IF j < i THEN << >> ELSE SubSeq(s, i, j)

\* does the literal text lit occur in s at position i
At(s, i, lit) ==
  /\ i >= 1
  /\ i + Len(lit) - 1 <= Len(s)
  /\ \A k \in 1..Len(lit) : s[i + k - 1] = lit[k]

\* the first position >= i whose character is not in the class (Len(s)+1 if none)
RECURSIVE SkipClass(_, _, _)
SkipClass(s, i, class) ==
  IF i <= Len(s) /\ s[i] \in class THEN SkipClass(s, i + 1, class) ELSE i

\* the first position >= i whose character is in the class (Len(s)+1 if none)
RECURSIVE FindClass(_, _, _)
FindClass(s, i, class) ==
  IF i <= Len(s) /\ s[i] \notin class THEN FindClass(s, i + 1, class) ELSE i

\* the first position >= i where lit occurs (0 if none)
RECURSIVE FindLit(_, _, _)
FindLit(s, i, lit) ==
  IF i + Len(lit) - 1 > Len(s) THEN 0
  ELSE IF At(s, i, lit) THEN i
  ELSE FindLit(s, i + 1, lit)

(***************************************************************************)
(* Comment removal of tokenize (parser.ts).                                *)
(***************************************************************************)
\* (#|\/\/) at position i: the length of the marker, 0 if there is none
MarkerAt(s, i) ==
  IF At(s, i, <<"#">>) THEN 1
  ELSE IF At(s, i, <<"/", "/">>) THEN 2
  ELSE 0

\* ^ under the m flag: the start of the text or just after a line terminator
LineStart(s, i) == i = 1 \/ (i - 1 <= Len(s) /\ s[i - 1] \in LineTerminator)

\* a bug: the marker starts a comment wherever it stands
LineCommentAt_anywhere(s, i) == IF MarkerAt(s, i) > 0 THEN i ELSE 0

\* (?:^|\s)(#|\/\/) tried at position i: the position of the marker, 0 if no match
LineCommentAt(s, i) ==
  IF LineStart(s, i) /\ MarkerAt(s, i) > 0 THEN i
  ELSE IF i <= Len(s) /\ s[i] \in WhiteSpace /\ MarkerAt(s, i + 1) > 0 THEN i + 1
  ELSE 0

\* cleanedInput.replace(/(?:^|\s)(#|\/\/).*$/gm, ""), scanning from position i
RECURSIVE StripLineFrom(_, _)
StripLineFrom(s, i) ==
  IF i > Len(s) THEN << >>
  ELSE IF LineCommentAt(s, i) > 0
       THEN StripLineFrom(s, FindClass(s, LineCommentAt(s, i), LineTerminator))
       ELSE <<s[i]>> \o StripLineFrom(s, i + 1)

StripLineComments(s) == StripLineFrom(s, 1)

\* cleanedInput.replace(/\/\*[\s\S]*?\*\//g, ""), scanning from position i
RECURSIVE StripBlockFrom(_, _)
StripBlockFrom(s, i) ==
  IF i > Len(s) THEN << >>
  ELSE IF At(s, i, <<"/", "*">>) /\ FindLit(s, i + 2, <<"*", "/">>) > 0
       THEN StripBlockFrom(s, FindLit(s, i + 2, <<"*", "/">>) + 2)
       ELSE <<s[i]>> \o StripBlockFrom(s, i + 1)

StripBlockComments(s) == StripBlockFrom(s, 1)

(***************************************************************************)
(* Numbers.  parseFloat of a matched literal is the decimal value          *)
(* (-1)^neg * m * 10^e, kept in the normal form where m has no trailing    *)
(* zero (and e = 0 when m = 0), so that 3.0 and 3 are the same value.      *)
(***************************************************************************)
RECURSIVE DigitsVal(_, _)
DigitsVal(ds, acc) ==
  IF ds = << >> THEN acc ELSE DigitsVal(Tail(ds), acc * 10 + DigitVal(Head(ds)))

RECURSIVE Normal(_, _, _)
Normal(neg, m, e) ==
  IF m = 0 THEN [neg |-> neg, m |-> 0, e |-> 0]
  ELSE IF m % 10 = 0 THEN Normal(neg, m \div 10, e + 1)
  ELSE [neg |-> neg, m |-> m, e |-> e]

\* the end (inclusive) of the match of -?[0-9]+(?:\.[0-9]+)?(?:[eE][+-]?[0-9]+)?
\* (or, without sign and exponent, of lexer.ts's [0-9]+(?:\.[0-9]+)?) at q;
\* 0 if there is no match.  The parts of the literal are returned with it.
NumberAt(s, q, rich) ==
  LET sign == IF rich /\ At(s, q, <<"-">>) THEN 1 ELSE 0
      i0   == q + sign
      i1   == SkipClass(s, i0, Digit)
      hasF == At(s, i1, <<".">>) /\ SkipClass(s, i1 + 1, Digit) > i1 + 1
      f1   == IF hasF THEN SkipClass(s, i1 + 1, Digit) ELSE i1
      es   == IF f1 + 1 <= Len(s) /\ s[f1 + 1] \in {"+", "-"} THEN 1 ELSE 0
      hasE == /\ rich
              /\ f1 <= Len(s) /\ s[f1] \in {"e", "E"}
              /\ SkipClass(s, f1 + 1 + es, Digit) > f1 + 1 + es
      e1   == IF hasE THEN SkipClass(s, f1 + 1 + es, Digit) ELSE f1
      frac == IF hasF THEN Slice(s, i1 + 1, f1 - 1) ELSE << >>
      ex   == IF hasE THEN DigitsVal(Slice(s, f1 + 1 + es, e1 - 1), 0) ELSE 0
      exv  == IF hasE /\ es = 1 /\ s[f1 + 1] = "-" THEN 0 - ex ELSE ex
  IN  IF i1 = i0 THEN [end |-> 0, value |-> Normal(FALSE, 0, 0)]
      ELSE [end   |-> e1 - 1,
            value |-> Normal(sign = 1,
                             DigitsVal(Slice(s, i0, i1 - 1) \o frac, 0),
                             exv - Len(frac))]

(***************************************************************************)
(* One attempt of the token alternatives at position q, the position after *)
(* the leading white space.  rich = TRUE is the expression of parser.ts,   *)
(* rich = FALSE the one of lexer.ts.  end = 0 means that no alternative    *)
(* matches at q, and the scan moves on by one character.                   *)
(***************************************************************************)
\* \b before position q, where a word character stands at q
BoundaryBefore(s, q) == q = 1 \/ s[q - 1] \notin WordChar

\* \b after the word character at position j
BoundaryAfter(s, j) == j = Len(s) \/ s[j + 1] \notin WordChar

\* (\btrue\b|\bfalse\b)
BooleanAt(s, q) ==
  IF At(s, q, <<"t", "r", "u", "e">>) /\ BoundaryBefore(s, q) /\ BoundaryAfter(s, q + 3)
    THEN 4
  ELSE IF /\ At(s, q, <<"f", "a", "l", "s", "e">>)
          /\ BoundaryBefore(s, q) /\ BoundaryAfter(s, q + 4)
    THEN 5
  ELSE 0

TokenAt(s, q, rich) ==
  LET close == FindClass(s, q + 1, {"\""})
  IN  IF s[q] = "\"" /\ close <= Len(s)
        THEN [end |-> close,
              tok |-> [type |-> "string", value |-> Slice(s, q + 1, close - 1)]]
      ELSE IF rich /\ BooleanAt(s, q) > 0
        THEN [end |-> q + BooleanAt(s, q) - 1,
              tok |-> [type |-> "boolean", value |-> (BooleanAt(s, q) = 4)]]
      ELSE IF s[q] \in IdentStart
        THEN [end |-> SkipClass(s, q + 1, IdentPart) - 1,
              tok |-> [type |-> "identifier",
                       value |-> Slice(s, q, SkipClass(s, q + 1, IdentPart) - 1)]]
      ELSE IF NumberAt(s, q, rich).end > 0
        THEN [end |-> NumberAt(s, q, rich).end,
              tok |-> [type |-> "number", value |-> NumberAt(s, q, rich).value]]
      ELSE IF s[q] \in SymbolChar
        THEN [end |-> q, tok |-> [type |-> "symbol", value |-> <<s[q]>>]]
      ELSE [end |-> 0, tok |-> [type |-> "none", value |-> << >>]]

\* the loop  while ((match = re.exec(...)) !== null)  from lastIndex = i - 1
RECURSIVE ScanFrom(_, _, _)

\* a bug: the loop ends at the first character that starts no token
ScanFrom_stop(s, i, rich) ==
  LET q == SkipClass(s, i, WhiteSpace)
  IN  IF q > Len(s) THEN << >>
      ELSE IF TokenAt(s, q, rich).end > 0
           THEN <<TokenAt(s, q, rich).tok>> \o ScanFrom(s, TokenAt(s, q, rich).end + 1, rich)
           ELSE << >>

ScanFrom(s, i, rich) ==
  LET q == SkipClass(s, i, WhiteSpace)
  IN  IF q > Len(s) THEN << >>
      ELSE IF TokenAt(s, q, rich).end > 0
           THEN <<TokenAt(s, q, rich).tok>> \o ScanFrom(s, TokenAt(s, q, rich).end + 1, rich)
           ELSE ScanFrom(s, q + 1, rich)

\* tokenize of src/parser/parser.ts
tokenize(input) == ScanFrom(StripBlockComments(StripLineComments(input)), 1, TRUE)

\* tokenize of src/parser/lexer.ts
tokenize_lexer(input) == ScanFrom(input, 1, FALSE)

(***************************************************************************)
(* Values (HCLValue).  A value carries its JavaScript type in t:           *)
(*   "str"  v = the characters         "num"  v = the number               *)
(*   "bool" v = the boolean                                                *)
(*   "arr"  v = the elements, p = the named (non-index) properties, which  *)
(*          an array, being an object, can be given                        *)
(*   "obj"  v = the mapping from key to value                              *)
(* Property names are taken from names that Object.prototype does not      *)
(* define, so that reading obj[n] sees own properties only.                *)
(***************************************************************************)
NoProps == [k \in {} |-> k]

Str(chars) == [t |-> "str", v |-> chars]

Num(n) == [t |-> "num", v |-> n]

Arr(elems) == [t |-> "arr", v |-> elems, p |-> NoProps]

Obj(map) == [t |-> "obj", v |-> map]

EmptyObj == Obj(NoProps)

\* f with key k set to x
Put(f, k, x) == [j \in DOMAIN f \cup {k} |-> IF j = k THEN x ELSE f[j]]

\* left overwritten and extended by right
Merge(left, right) ==
  [j \in DOMAIN left \cup DOMAIN right |-> IF j \in DOMAIN right THEN right[j] ELSE left[j]]

(***************************************************************************)
(* The errors parseHCL throws: msg is the fixed part of the message, a and *)
(* b the interpolated parts.                                               *)
(***************************************************************************)
NoError == [msg |-> "", a |-> << >>, b |-> << >>]

EndOfInput == [msg |-> "Unexpected end of input", a |-> << >>, b |-> << >>]

ExpectedType(want, got) == [msg |-> "Expected type", a |-> want, b |-> got]

ExpectedValue(want, got) == [msg |-> "Expected value", a |-> want, b |-> got]

UnexpectedToken(value) == [msg |-> "Unexpected token", a |-> value, b |-> << >>]

\* the TypeError of strict-mode code that sets a property of a primitive
TypeError(name) == [msg |-> "TypeError", a |-> name, b |-> << >>]

(***************************************************************************)
(* The cursor.  Positions are 1-based: pos = Len(toks) + 1 is the end.     *)
(***************************************************************************)
\* peek() is not undefined
\* a bug: the last token never seen
HasToken_short(toks, pos) == pos < Len(toks)

HasToken(toks, pos) == pos <= Len(toks)

\* peek()!.value === text; a number or a boolean is never === a string
ValueIs(tok, text) ==
  tok.type \in {"identifier", "string", "symbol"} /\ tok.value = text

\* a bug: the type check made before the check for the end of the tokens
consume_typeFirst(toks, pos, expectedType, expectedValue) ==
  IF expectedType # "" /\ (~HasToken(toks, pos) \/ toks[pos].type # expectedType)
    THEN [ok |-> FALSE, pos |-> pos + 1,
          err |-> ExpectedType(expectedType,
                               IF HasToken(toks, pos) THEN toks[pos].type ELSE "undefined")]
  ELSE IF ~HasToken(toks, pos)
    THEN [ok |-> FALSE, pos |-> pos + 1, err |-> EndOfInput]
  ELSE IF expectedValue # << >> /\ ~ValueIs(toks[pos], expectedValue)
    THEN [ok |-> FALSE, pos |-> pos + 1,
          err |-> ExpectedValue(expectedValue, toks[pos].value)]
  ELSE [ok |-> TRUE, pos |-> pos + 1, err |-> NoError]

\* a bug: a String token taken where an identifier is expected
consume_orString(toks, pos, expectedType, expectedValue) ==
  IF ~HasToken(toks, pos)
    THEN [ok |-> FALSE, pos |-> pos + 1, err |-> EndOfInput]
  ELSE IF expectedType # "" /\ toks[pos].type # expectedType
          /\ ~(expectedType = "identifier" /\ toks[pos].type = "string")
    THEN [ok |-> FALSE, pos |-> pos + 1,
          err |-> ExpectedType(expectedType, toks[pos].type)]
  ELSE IF expectedValue # << >> /\ ~ValueIs(toks[pos], expectedValue)
    THEN [ok |-> FALSE, pos |-> pos + 1,
          err |-> ExpectedValue(expectedValue, toks[pos].value)]
  ELSE [ok |-> TRUE, pos |-> pos + 1, err |-> NoError]

\* a bug: the check of the value left out
consume_anyValue(toks, pos, expectedType, expectedValue) ==
  IF ~HasToken(toks, pos)
    THEN [ok |-> FALSE, pos |-> pos + 1, err |-> EndOfInput]
  ELSE IF expectedType # "" /\ toks[pos].type # expectedType
    THEN [ok |-> FALSE, pos |-> pos + 1,
          err |-> ExpectedType(expectedType, toks[pos].type)]
  ELSE [ok |-> TRUE, pos |-> pos + 1, err |-> NoError]

\* consume(expectedType, expectedValue); "" and << >> stand for an omitted
\* argument.  The cursor moves before any check is made.
consume(toks, pos, expectedType, expectedValue) ==
  IF ~HasToken(toks, pos)
    THEN [ok |-> FALSE, pos |-> pos + 1, err |-> EndOfInput]
  ELSE IF expectedType # "" /\ toks[pos].type # expectedType
    THEN [ok |-> FALSE, pos |-> pos + 1,
          err |-> ExpectedType(expectedType, toks[pos].type)]
  ELSE IF expectedValue # << >> /\ ~ValueIs(toks[pos], expectedValue)
    THEN [ok |-> FALSE, pos |-> pos + 1,
          err |-> ExpectedValue(expectedValue, toks[pos].value)]
  ELSE [ok |-> TRUE, pos |-> pos + 1, err |-> NoError]

\* a bug: the cursor set back to the first token by a throw
Throw_rewind(pos, err) == [ok |-> FALSE, pos |-> 1, err |-> err, val |-> EmptyObj]

\* a throw that leaves the cursor at pos
Throw(pos, err) == [ok |-> FALSE, pos |-> pos, err |-> err, val |-> EmptyObj]

Return(pos, val) == [ok |-> TRUE, pos |-> pos, err |-> NoError, val |-> val]

RECURSIVE parseValue(_, _)
RECURSIVE ArrayLoop(_, _, _)
RECURSIVE ObjectLoop(_, _, _)

\* a bug: arr.unshift in place of arr.push
ArrayLoop_unshift(toks, pos, arr) ==
  IF HasToken(toks, pos) /\ ~ValueIs(toks[pos], <<"]">>)
    THEN LET e == parseValue(toks, pos)
             c == consume(toks, e.pos, "symbol", <<",">>)
         IN  IF ~e.ok THEN e
             ELSE IF HasToken(toks, e.pos) /\ ValueIs(toks[e.pos], <<",">>)
               THEN IF c.ok THEN ArrayLoop(toks, c.pos, <<e.val>> \o arr)
                    ELSE Throw(c.pos, c.err)
             ELSE ArrayLoop(toks, e.pos, <<e.val>> \o arr)
    ELSE LET c == consume(toks, pos, "symbol", <<"]">>)
         IN  IF c.ok THEN Return(c.pos, Arr(arr)) ELSE Throw(c.pos, c.err)

\* the while loop and the closing consume of parseArray, arr parsed so far
ArrayLoop(toks, pos, arr) ==
  IF HasToken(toks, pos) /\ ~ValueIs(toks[pos], <<"]">>)
    THEN LET e == parseValue(toks, pos)
             c == consume(toks, e.pos, "symbol", <<",">>)
         IN  IF ~e.ok THEN e
             ELSE IF HasToken(toks, e.pos) /\ ValueIs(toks[e.pos], <<",">>)
               THEN IF c.ok THEN ArrayLoop(toks, c.pos, Append(arr, e.val))
                    ELSE Throw(c.pos, c.err)
             ELSE ArrayLoop(toks, e.pos, Append(arr, e.val))
    ELSE LET c == consume(toks, pos, "symbol", <<"]">>)
         IN  IF c.ok THEN Return(c.pos, Arr(arr)) ELSE Throw(c.pos, c.err)

parseArray(toks, pos) ==
  LET c == consume(toks, pos, "symbol", <<"[">>)
  IN  IF c.ok THEN ArrayLoop(toks, c.pos, << >>) ELSE Throw(c.pos, c.err)

\* a bug: a key already set keeps its first value
ObjectLoop_firstWins(toks, pos, obj) ==
  IF HasToken(toks, pos) /\ ~ValueIs(toks[pos], <<"}">>)
    THEN LET k == consume(toks, pos, "identifier", << >>)
             q == consume(toks, k.pos, "symbol", <<"=">>)
             x == parseValue(toks, q.pos)
         IN  IF ~k.ok THEN Throw(k.pos, k.err)
             ELSE IF ~q.ok THEN Throw(q.pos, q.err)
             ELSE IF ~x.ok THEN x
             ELSE IF toks[pos].value \in DOMAIN obj THEN ObjectLoop(toks, x.pos, obj)
             ELSE ObjectLoop(toks, x.pos, Put(obj, toks[pos].value, x.val))
    ELSE LET c == consume(toks, pos, "symbol", <<"}">>)
         IN  IF c.ok THEN Return(c.pos, Obj(obj)) ELSE Throw(c.pos, c.err)

\* the while loop and the closing consume of parseObject, obj parsed so far
ObjectLoop(toks, pos, obj) ==
  IF HasToken(toks, pos) /\ ~ValueIs(toks[pos], <<"}">>)
    THEN LET k == consume(toks, pos, "identifier", << >>)
             q == consume(toks, k.pos, "symbol", <<"=">>)
             x == parseValue(toks, q.pos)
         IN  IF ~k.ok THEN Throw(k.pos, k.err)
             ELSE IF ~q.ok THEN Throw(q.pos, q.err)
             ELSE IF ~x.ok THEN x
             ELSE ObjectLoop(toks, x.pos, Put(obj, toks[pos].value, x.val))
    ELSE LET c == consume(toks, pos, "symbol", <<"}">>)
         IN  IF c.ok THEN Return(c.pos, Obj(obj)) ELSE Throw(c.pos, c.err)

parseObject(toks, pos) ==
  LET c == consume(toks, pos, "symbol", <<"{">>)
  IN  IF c.ok THEN ObjectLoop(toks, c.pos, NoProps) ELSE Throw(c.pos, c.err)

parseValue(toks, pos) ==
  IF ~HasToken(toks, pos) THEN Throw(pos, EndOfInput)
  ELSE IF toks[pos].type = "string" THEN Return(pos + 1, Str(toks[pos].value))
  ELSE IF toks[pos].type = "number" THEN Return(pos + 1, Num(toks[pos].value))
  ELSE IF toks[pos].type = "symbol" /\ toks[pos].value = <<"{">>
    THEN parseObject(toks, pos)
  ELSE IF toks[pos].type = "symbol" /\ toks[pos].value = <<"[">>
    THEN parseArray(toks, pos)
  ELSE Throw(pos, UnexpectedToken(toks[pos].value))

(***************************************************************************)
(* Placement of one top-level block (parseTopLevel, "Nest structure based  *)
(* on names").                                                             *)
(***************************************************************************)
\* JavaScript truthiness, as ( ref[n] || {} ) and if (n) test it
Truthy(x) ==
  CASE x.t = "str"  -> x.v # << >>
    [] x.t = "num"  -> x.v.m # 0
    [] x.t = "bool" -> x.v
    [] OTHER        -> TRUE

Primitive(x) == x.t \in {"str", "num", "bool"}

\* the own properties a name can address: the keys of an object, the named
\* properties of an array
Props(ref) == IF ref.t = "obj" THEN ref.v ELSE IF ref.t = "arr" THEN ref.p ELSE NoProps

\* a bug: a new mapping at every name, the one already there forgotten
GetOrEmpty_fresh(ref, n) == EmptyObj

\* ref[n] || {}
GetOrEmpty(ref, n) ==
  IF n \in DOMAIN Props(ref) /\ Truthy(Props(ref)[n]) THEN Props(ref)[n] ELSE EmptyObj

\* a bug: the fields of x merged into the mapping already at n
SetProp_merge(ref, n, x) ==
  LET old == IF n \in DOMAIN Props(ref) THEN Props(ref)[n] ELSE EmptyObj
      new == IF old.t = "obj" /\ x.t = "obj" THEN Obj(Merge(old.v, x.v)) ELSE x
  IN  IF ref.t = "obj" THEN Obj(Put(ref.v, n, new)) ELSE [ref EXCEPT !.p = Put(ref.p, n, new)]

\* ref[n] = x, on an object or an array
SetProp(ref, n, x) ==
  IF ref.t = "obj" THEN Obj(Put(ref.v, n, x)) ELSE [ref EXCEPT !.p = Put(ref.p, n, x)]

DigitChar(d) ==
  CASE d = 0 -> "0" [] d = 1 -> "1" [] d = 2 -> "2" [] d = 3 -> "3" [] d = 4 -> "4"
    [] d = 5 -> "5" [] d = 6 -> "6" [] d = 7 -> "7" [] d = 8 -> "8" [] d = 9 -> "9"

\* String(i), the property name of the array index i
RECURSIVE IndexKey(_)
IndexKey(i) ==
  IF i < 10 THEN <<DigitChar(i)>> ELSE IndexKey(i \div 10) \o <<DigitChar(i % 10)>>

\* the own enumerable properties Object.assign copies from value
OwnProps(value) ==
  CASE value.t = "obj" -> value.v
    [] value.t = "arr" ->
         Merge([k \in {IndexKey(i - 1) : i \in 1..Len(value.v)} |->
                  value.v[CHOOSE i \in 1..Len(value.v) : IndexKey(i - 1) = k]],
               value.p)
    [] OTHER -> NoProps

\* a bug: the body replaces the mapping instead of being merged into it
ObjectAssign_replace(ref, value) == Obj(OwnProps(value))

\* Object.assign(ref, value) on the object ref
ObjectAssign(ref, value) == Obj(Merge(ref.v, OwnProps(value)))

\* The for loop over names[i], i < names.length - 1, and the assignment at the
\* last name, from index i on, as the value ref becomes.  Setting a property
\* of a primitive throws.
RECURSIVE Nest(_, _, _, _)
Nest(ref, names, i, value) ==
  IF i < Len(names)
    THEN IF names[i] = << >> THEN Nest(ref, names, i + 1, value)
         ELSE IF Primitive(ref) THEN [ok |-> FALSE, val |-> ref, err |-> TypeError(names[i])]
         ELSE LET sub == Nest(GetOrEmpty(ref, names[i]), names, i + 1, value)
              IN  IF sub.ok
                    THEN [ok |-> TRUE, val |-> SetProp(ref, names[i], sub.val), err |-> NoError]
                    ELSE sub
  ELSE IF names[i] = << >> THEN [ok |-> TRUE, val |-> ref, err |-> NoError]
  ELSE IF Primitive(ref) THEN [ok |-> FALSE, val |-> ref, err |-> TypeError(names[i])]
  ELSE [ok |-> TRUE, val |-> SetProp(ref, names[i], value), err |-> NoError]

\* lines 125-139: curr after the block (key is result's key, names its chain)
PlaceBlock(curr, names, value) ==
  IF Len(names) > 0 THEN Nest(curr, names, 1, value)
  ELSE [ok |-> TRUE, val |-> ObjectAssign(curr, value), err |-> NoError]

\* the position after the String tokens that follow position pos - 1
RECURSIVE SkipNames(_, _)
SkipNames(toks, pos) ==
  IF HasToken(toks, pos) /\ toks[pos].type = "string" THEN SkipNames(toks, pos + 1) ELSE pos

(***************************************************************************)
(* The texts parseHCL is run on.  written is what the author of the text   *)
(* wrote (the blocks, the elements of an array, the fields of an object),  *)
(* input the text itself.                                                  *)
(***************************************************************************)
MaxBlocks == 2

MaxElems == 3

MaxFields == 3

\* a string literal
Q(chars) == <<"\"">> \o chars \o <<"\"">>

RECURSIVE Join(_, _)
Join(texts, sep) ==
  IF texts = << >> THEN << >>
  ELSE IF Len(texts) = 1 THEN texts[1]
  ELSE texts[1] \o sep \o Join(Tail(texts), sep)

SeqsUpTo(S, n) == UNION {[1..k -> S] : k \in 0..n}

One == [neg |-> FALSE, m |-> 1, e |-> 0]

Two == [neg |-> FALSE, m |-> 2, e |-> 0]

\* name chains with an empty name: "", "" "a", "a" ""
EmptyNameChains == { << << >> >>, << << >>, <<"a">> >>, << <<"a">>, << >> >> }

BodyEmpty == <<"{", " ", "}">>

BodyA1 == <<"{", " ", "a", " ", "=", " ", "1", " ", "}">>

BodyA0 == <<"{", " ", "a", " ", "=", " ", "0", " ", "}">>

BodyAB ==
  <<"{", " ", "a", " ", "=", " ", "\"", "s", "\"", " ", "b", " ", "=", " ", "2", " ", "}">>

BodyArray == <<"[", " ", "1", " ", "]">>

\* r with every body bare and under "a", with fewer bodies under the longer
\* chains, with an empty name in the chain, and a second keyword c
BlockDescs ==
  [kw : {<<"r">>}, names : {<< >>}, body : {BodyEmpty, BodyA1, BodyA0, BodyAB, BodyArray}]
    \cup [kw : {<<"r">>}, names : {<< <<"a">> >>}, body : {BodyEmpty, BodyA1, BodyAB, BodyArray}]
    \cup [kw : {<<"r">>}, names : {<< <<"b">> >>}, body : {BodyA1}]
    \cup [kw : {<<"r">>}, names : {<< <<"a">>, <<"a">> >>}, body : {BodyA1, BodyAB}]
    \cup [kw : {<<"r">>}, names : {<< <<"a">>, <<"b">> >>}, body : {BodyA1, BodyAB, BodyArray}]
    \cup [kw : {<<"r">>}, names : {<< <<"a">>, <<"b">>, <<"a">> >>}, body : {BodyA1}]
    \cup [kw : {<<"r">>}, names : EmptyNameChains, body : {BodyA1}]
    \cup [kw : {<<"c">>}, names : {<< >>, << <<"a">> >>}, body : {BodyA1}]

BlockText(b) ==
  Join(<<b.kw>> \o [i \in 1..Len(b.names) |-> Q(b.names[i])] \o <<b.body>>, <<" ">>)

\* array elements and field values: 1, 2, "s", [ 1 ]
ElemDescs ==
  { [text |-> <<"1">>, val |-> Num(One)],
    [text |-> <<"2">>, val |-> Num(Two)],
    [text |-> Q(<<"s">>), val |-> Str(<<"s">>)],
    [text |-> <<"[", "1", "]">>, val |-> Arr(<<Num(One)>>)] }

\* c { k = [ e1 , e2 e3 ] }: comma[i] says whether a comma follows element i
ArrayText(elems, comma) ==
  <<"c", " ", "{", " ", "k", " ", "=", " ", "[">>
    \o Join([i \in 1..Len(elems) |->
               elems[i].text \o (IF comma[i] THEN <<",">> ELSE << >>)], <<" ">>)
    \o <<"]", " ", "}">>

\* c "n" { k1 = v1 k2 = v2 }
ObjectText(fields) ==
  <<"c", " ", "\"", "n", "\"", " ", "{", " ">>
    \o Join([i \in 1..Len(fields) |-> fields[i].key \o <<" ", "=", " ">> \o fields[i].val.text],
            <<" ">>)
    \o <<" ", "}">>

\* texts of the tests and of the README that the families above do not cover
\* config { enabled = true disabled = false }            (parser.test.ts:25)
SampleBooleans ==
  <<"c", " ", "{", " ", "e", " ", "=", " ", "t", "r", "u", "e", " ",
    "d", " ", "=", " ", "f", "a", "l", "s", "e", " ", "}">>

\* config { mixed = [1, "two", 3.0, true] }                (parser.test.ts:66)
SampleMixed ==
  <<"c", " ", "{", " ", "m", " ", "=", " ", "[", "1", ",", " ", "\"", "t", "\"", ",",
    " ", "3", ".", "0", ",", " ", "t", "r", "u", "e", "]", " ", "}">>

\* config { database { host = "localhost" port = 5432 } }  (parser.test.ts:86)
SampleNested ==
  <<"c", " ", "{", "\n", "d", " ", "{", "\n", "h", " ", "=", " ", "\"", "l", "\"", "\n",
    "p", " ", "=", " ", "5", "\n", "}", "\n", "}">>

\* server { web { port = 80 } api { port = 8080 } }        (parser.test.ts:105)
SampleNestedTwo ==
  <<"s", " ", "{", " ", "w", " ", "{", " ", "p", " ", "=", " ", "8", " ", "}", " ",
    "a", " ", "{", " ", "p", " ", "=", " ", "9", " ", "}", " ", "}">>

\* config { temperature = -5 }                             (parser.test.ts:35)
SampleNegative == <<"c", " ", "{", " ", "t", " ", "=", " ", "-", "5", " ", "}">>

\* -42 -3.14                                              (lexer.test.ts:31)
SampleNegatives == <<"-", "4", "2", " ", "-", "3", ".", "1", "4">>

\* AWSTemplateFormatVersion = "2010-09-09" and Resources { }, as  A = "2"  and
\* R { }  on two lines                          (CloudFormation example, 4-19)
SampleAttribute == <<"A", " ", "=", " ", "\"", "2", "\"", "\n", "R", " ", "{", " ", "}">>

Samples ==
  { SampleBooleans, SampleNegatives, SampleMixed, SampleNested, SampleNestedTwo, SampleNegative,
    \* config
    <<"c">>,
    \* config {                                          (parser.test.ts:257)
    <<"c", " ", "{">>,
    \* config = = 123                                    (parser.test.ts:261)
    <<"c", " ", "=", " ", "=", " ", "1", "2", "3">>,
    \* config { name =                                   (parser.test.ts:265)
    <<"c", " ", "{", " ", "n", " ", "=", " ">>,
    SampleAttribute,
    \* config { a = { b = 1 } }
    <<"c", " ", "{", " ", "a", " ", "=", " ", "{", " ", "b", " ", "=", " ", "1", " ", "}", " ", "}">> }

\* what may stand where a block keyword is expected: identifiers, a string,
\* numbers, booleans, symbols
KeyWords ==
  { <<"a", "-", "b">>, <<"_", "a", "1">>, Q(<<"s">>), <<"1">>, <<"-", "1">>,
    <<"t", "r", "u", "e">>, <<"f", "a", "l", "s", "e">>, <<"=">>, <<"{">>, <<"[">>, <<",">> }

\* K { }  as the first block, and as the second after  r { }
KeyTexts ==
  {k \o <<" ">> \o BodyEmpty : k \in KeyWords}
    \cup {<<"r", " ">> \o BodyEmpty \o <<"\n">> \o k \o <<" ">> \o BodyEmpty : k \in KeyWords}

NoWritten == [fam |-> "text", blocks |-> << >>, elems |-> << >>, comma |-> << >>, fields |-> << >>]

\* the blocks that may follow two others: the two-field body under every
\* chain it is written with, and the second keyword
LaterDescs ==
  {b \in BlockDescs : b.body = BodyAB} \cup {[kw |-> <<"c">>, names |-> << >>, body |-> BodyA1]}

\* at most n blocks, any two and then later ones
BlockSeqs(n) ==
  UNION {{bs \in [1..k -> BlockDescs] : \A i \in 3..k : bs[i] \in LaterDescs} : k \in 0..n}

Written(nBlocks, nElems, nFields) ==
  {[NoWritten EXCEPT !.fam = "blocks", !.blocks = bs] : bs \in BlockSeqs(nBlocks)}
    \cup {[NoWritten EXCEPT !.fam = "array", !.elems = es, !.comma = cs] :
            <<es, cs>> \in UNION {[1..k -> ElemDescs] \X [1..k -> BOOLEAN] : k \in 0..nElems}}
    \cup {[NoWritten EXCEPT !.fam = "object", !.fields = fs] :
            fs \in SeqsUpTo([key : {<<"a">>, <<"b">>}, val : ElemDescs], nFields)}

TextOf(w) ==
  CASE w.fam = "blocks" -> Join([i \in 1..Len(w.blocks) |-> BlockText(w.blocks[i])], <<"\n">>)
    [] w.fam = "array"  -> ArrayText(w.elems, w.comma)
    [] w.fam = "object" -> ObjectText(w.fields)

(***************************************************************************)
(* The directive parser (src/directives/parser.ts).                        *)
(***************************************************************************)
UpperCase ==
  <<"A", "B", "C", "D", "E", "F", "G", "H", "I", "J", "K", "L", "M",
    "N", "O", "P", "Q", "R", "S", "T", "U", "V", "W", "X", "Y", "Z">>

LowerCase ==
  <<"a", "b", "c", "d", "e", "f", "g", "h", "i", "j", "k", "l", "m",
    "n", "o", "p", "q", "r", "s", "t", "u", "v", "w", "x", "y", "z">>

\* s.toLowerCase()
toLowerCase(s) ==
  [i \in 1..Len(s) |->
     IF \E k \in 1..Len(UpperCase) : UpperCase[k] = s[i]
       THEN LowerCase[CHOOSE k \in 1..Len(UpperCase) : UpperCase[k] = s[i]]
       ELSE s[i]]

\* does lit (in lower case) occur in s at position i, under the i flag
AtNoCase(s, i, lit) ==
  /\ i >= 1
  /\ i + Len(lit) - 1 <= Len(s)
  /\ toLowerCase(SubSeq(s, i, i + Len(lit) - 1)) = lit

Use == <<"u", "s", "e">>

CloudFormation == <<"c", "l", "o", "u", "d", "f", "o", "r", "m", "a", "t", "i", "o", "n">>

Grafana == <<"g", "r", "a", "f", "a", "n", "a">>

Kubernetes == <<"k", "u", "b", "e", "r", "n", "e", "t", "e", "s">>

\* (cloudformation|grafana|kubernetes), in the order of the alternatives
ServiceNames == <<CloudFormation, Grafana, Kubernetes>>

\* serviceType null; match[1] is never the empty string
Null == << >>

NoMatch == [ok |-> FALSE, service |-> << >>, end |-> 0]

\* \s*use\s+(cloudformation|grafana|kubernetes)\s* tried at position i: the
\* text of the group and the last position of the match
DirectiveAt(s, i) ==
  LET u     == SkipClass(s, i, WhiteSpace)
      v     == SkipClass(s, u + Len(Use), WhiteSpace)
      found == {k \in 1..Len(ServiceNames) : AtNoCase(s, v, ServiceNames[k])}
  IN  IF AtNoCase(s, u, Use) /\ v > u + Len(Use) /\ found # {}
        THEN LET name == ServiceNames[CHOOSE k \in found : TRUE]
             IN  [ok      |-> TRUE,
                  service |-> SubSeq(s, v, v + Len(name) - 1),
                  end     |-> SkipClass(s, v + Len(name), WhiteSpace) - 1]
        ELSE NoMatch

RECURSIVE CommentsThenDirective(_, _)
RECURSIVE BlockThenDirective(_, _)

\* (?:\/\/.*\n|\/\*[\s\S]*?\*\/|\#.*\n)* and the rest of the expression tried at
\* position i: one more comment if that leads to a match (the star is
\* greedy), else the rest of the expression here
CommentsThenDirective(s, i) ==
  IF MarkerAt(s, i) > 0
    THEN LET e == FindClass(s, i + MarkerAt(s, i), LineTerminator)
             r == IF e <= Len(s) /\ s[e] = "\n"
                    THEN CommentsThenDirective(s, e + 1) ELSE NoMatch
         IN  IF r.ok THEN r ELSE DirectiveAt(s, i)
  ELSE IF At(s, i, <<"/", "*">>)
    THEN LET r == BlockThenDirective(s, i + 2)
         IN  IF r.ok THEN r ELSE DirectiveAt(s, i)
  ELSE DirectiveAt(s, i)

\* [\s\S]*?\*\/ from position from on: the nearest closing marker first, a
\* later one when the rest of the expression fails after it (the star is lazy)
BlockThenDirective(s, from) ==
  LET c == FindLit(s, from, <<"*", "/">>)
  IN  IF c = 0 THEN NoMatch
      ELSE LET r == CommentsThenDirective(s, c + 2)
           IN  IF r.ok THEN r ELSE BlockThenDirective(s, c + 1)

\* input.match(directiveRegex): ^\s* and then the rest
MatchDirective(input) == CommentsThenDirective(input, SkipClass(input, 1, WhiteSpace))

parseDirective(input) ==
  LET match == MatchDirective(input)
  IN  IF match.ok
        THEN [serviceType  |-> toLowerCase(match.service),
              cleanedInput |-> Slice(input, match.end + 1, Len(input))]
        ELSE [serviceType |-> Null, cleanedInput |-> input]

(***************************************************************************)
(* The generic validator (src/validation/schema.ts, validator.ts).         *)
(***************************************************************************)
\* hclIdentifierSchema: /^[a-zA-Z_][a-zA-Z0-9_]*$/
IsIdentifierKey(k) ==
  /\ Len(k) >= 1
  /\ k[1] \in IdentStart
  /\ \A i \in 2..Len(k) : k[i] \in WordChar

RECURSIVE ValidValue(_)

\* a bug: the keys of nested mappings are not looked at
ValidValue_shallow(x) == TRUE

\* hclValueSchema: a string, a number, a boolean, an array of values, or a
\* record of values under identifier keys
ValidValue(x) ==
  CASE x.t = "arr" -> \A i \in 1..Len(x.v) : ValidValue(x.v[i])
    [] x.t = "obj" -> \A k \in DOMAIN x.v : IsIdentifierKey(k) /\ ValidValue(x.v[k])
    [] OTHER       -> x.t \in {"str", "num", "bool"}

\* hclSchema.safeParse(data).success
ValidHCL(data) == \A k \in DOMAIN data : IsIdentifierKey(k) /\ ValidValue(data[k])

(***************************************************************************)
(* The command-line arguments (src/app.ts).  A path is known by its        *)
(* ending; "" is the empty path.                                           *)
(***************************************************************************)
InputPaths == {"", ".hcl", ".tf", ".txt"}

OutputPaths == {"", ".yaml", ".yml", ".json"}

\* a bug: the arguments are not checked
ArgsOk_any(args) == TRUE

\* cliArgsSchema.parse does not throw
ArgsOk(args) == args.input \in {".hcl", ".tf"} /\ args.output \in {".yaml", ".yml"}

\* a bug: the generic validator whatever the service
ValidatorOf_generic(serviceType) == "validateHCL"

\* the validator of the switch on serviceType
ValidatorOf(serviceType) ==
  CASE serviceType = CloudFormation -> "validateCloudFormation"
    [] serviceType = Grafana        -> "validateGrafana"
    [] serviceType = Kubernetes     -> "validateKubernetes"

\* the locals of the action of app.ts, before it has run
NoApp ==
  [stage |-> "none", args |-> [input |-> "", output |-> ""], exists |-> FALSE, file |-> << >>,
   hclContent |-> << >>, serviceType |-> Null, cleanedInput |-> << >>, data |-> NoProps,
   calls |-> << >>, stderr |-> ""]

(***************************************************************************)
(* The state of one call of parseHCL.                                      *)
(***************************************************************************)
VARIABLES
  written,   \* what the text was rendered from
  input,     \* the argument of parseHCL
  lexer,     \* the module whose tokenize the name tokenize of parser.ts denotes
  tokens,    \* const tokens
  pos,       \* let pos, as a 1-based position
  result,    \* const result of parseTopLevel: key -> object
  status,    \* "start", "parsing", "returned" or "threw"
  error,     \* the error thrown
  blocks,    \* the blocks parsed so far: their key, names and value
  app        \* the action of app.ts: its stage, its locals, the calls it made

vars == <<written, input, lexer, tokens, pos, result, status, error, blocks, app>>

\* parser.ts both imports tokenize from ./lexer (line 1) and declares its own
\* (line 178): either may be the one parseHCL calls
Lexers == {"lexer.ts", "parser.ts"}

Start(w, text, lx) ==
  /\ written = w
  /\ input = text
  /\ lexer = lx
  /\ tokens = << >>
  /\ pos = 1
  /\ result = NoProps
  /\ status = "start"
  /\ error = NoError
  /\ blocks = << >>
  /\ app = NoApp

Init ==
  \E lx \in Lexers :
    \/ \E w \in Written(MaxBlocks, MaxElems, MaxFields) : Start(w, TextOf(w), lx)
    \/ \E text \in Samples \cup KeyTexts : Start(NoWritten, text, lx)

\* line 26: const tokens = tokenize(input)
Tokenize ==
  /\ status = "start"
  /\ tokens' = IF lexer = "parser.ts" THEN tokenize(input) ELSE tokenize_lexer(input)
  /\ status' = "parsing"
  /\ UNCHANGED <<written, input, lexer, pos, result, error, blocks, app>>

\* one iteration of the while (peek()) loop of parseTopLevel
TopLevelBlock ==
  /\ status = "parsing"
  /\ HasToken(tokens, pos)
  /\ LET k      == consume(tokens, pos, "identifier", << >>)
         key    == tokens[pos].value
         np     == SkipNames(tokens, k.pos)
         names  == [i \in 1..(np - k.pos) |-> tokens[k.pos + i - 1].value]
         value  == parseValue(tokens, np)
         curr   == IF key \in DOMAIN result THEN result[key] ELSE EmptyObj
         placed == PlaceBlock(curr, names, value.val)
     IN  IF ~k.ok
           THEN /\ status' = "threw" /\ error' = k.err /\ pos' = k.pos
                /\ UNCHANGED <<result, blocks>>
         ELSE IF ~value.ok
           THEN /\ status' = "threw" /\ error' = value.err /\ pos' = value.pos
                /\ UNCHANGED <<result, blocks>>
         ELSE IF ~placed.ok
           THEN /\ status' = "threw" /\ error' = placed.err /\ pos' = value.pos
                /\ blocks' = Append(blocks, [key |-> key, names |-> names, value |-> value.val])
                /\ UNCHANGED result
         ELSE /\ result' = Put(result, key, placed.val)
              /\ pos' = value.pos
              /\ blocks' = Append(blocks, [key |-> key, names |-> names, value |-> value.val])
              /\ UNCHANGED <<status, error>>
  /\ UNCHANGED <<written, input, lexer, tokens, app>>

\* peek() is undefined: return result
Finish ==
  /\ status = "parsing"
  /\ ~HasToken(tokens, pos)
  /\ status' = "returned"
  /\ UNCHANGED <<written, input, lexer, tokens, pos, result, error, blocks, app>>

Next == Tokenize \/ TopLevelBlock \/ Finish

Spec == Init /\ [][Next]_vars

(***************************************************************************)
(* The tokenizers on arbitrary short texts: every concatenation of at most *)
(* MaxPieces pieces, the pieces being the characters and markers that      *)
(* comments and string literals are made of.                               *)
(***************************************************************************)
MaxPieces == 4

MaxInner == 3

Pieces ==
  { <<"\"">>, <<" ">>, <<"\n">>, <<"#">>, <<"/", "/">>, <<"/", "*">>, <<"*", "/">>, <<"a">> }

RECURSIVE Concat(_)
Concat(texts) == IF texts = << >> THEN << >> ELSE Head(texts) \o Concat(Tail(texts))

\* the short texts, and a short text inside a string literal and inside a
\* block comment that an identifier follows
LexTexts(nPieces, nInner) ==
  {Concat(ps) : ps \in SeqsUpTo(Pieces, nPieces)}
    \cup {Q(Concat(ps)) : ps \in SeqsUpTo(Pieces, nInner)}
    \cup {<<"/", "*">> \o Concat(ps) \o <<"*", "/", "a">> : ps \in SeqsUpTo(Pieces, nInner)}

InitLex == \E lx \in Lexers : \E text \in LexTexts(MaxPieces, MaxInner) : Start(NoWritten, text, lx)

SpecLex == InitLex /\ [][Next]_vars

(***************************************************************************)
(* Reading the document.                                                   *)
(***************************************************************************)
Undefined == [t |-> "undefined"]

\* x[names[i]]...[names[Len(names)]]
RECURSIVE ValueAt(_, _, _)
ValueAt(x, names, i) ==
  IF i > Len(names) THEN x
  ELSE IF names[i] \in DOMAIN Props(x) THEN ValueAt(Props(x)[names[i]], names, i + 1)
  ELSE Undefined

\* doc[key][names[1]]...[names[k]]
DocAt(doc, key, names) ==
  IF key \in DOMAIN doc THEN ValueAt(doc[key], names, 1) ELSE Undefined

PathOf(b) == <<b.kw>> \o b.names

\* p equals q or is a prefix of q
PrefixOf(p, q) == Len(p) <= Len(q) /\ SubSeq(q, 1, Len(p)) = p

(***************************************************************************)
(* C1.  Named blocks with non-empty names, none of whose paths equals or   *)
(* is a prefix of another's: the returned document holds, at the path      *)
(* keyword/name1/../namek of every block, the parsed body of that block,   *)
(* so blocks that share a prefix are siblings under one mapping.           *)
(***************************************************************************)
C1_Pre ==
  /\ written.fam = "blocks"
  /\ Len(written.blocks) >= 1
  /\ \A i \in 1..Len(written.blocks) :
       /\ Len(written.blocks[i].names) >= 1
       /\ \A j \in 1..Len(written.blocks[i].names) : written.blocks[i].names[j] # << >>
  /\ \A i, j \in 1..Len(written.blocks) :
       i # j => ~PrefixOf(PathOf(written.blocks[i]), PathOf(written.blocks[j]))

C1_NamedBlocksNest ==
  C1_Pre =>
    /\ status # "threw"
    /\ status = "returned" =>
         /\ Len(blocks) = Len(written.blocks)
         /\ \A i \in 1..Len(blocks) :
              DocAt(result, written.blocks[i].kw, written.blocks[i].names) = blocks[i].value

\* two blocks  r "a" "a" { .. }  and  r "a" "b" { .. }  returned as siblings
C1_Witness ==
  /\ C1_Pre
  /\ status = "returned"
  /\ Len(written.blocks) = 2
  /\ written.blocks[1].names = << <<"a">>, <<"a">> >>
  /\ written.blocks[2].names = << <<"a">>, <<"b">> >>
  /\ DOMAIN result[<<"r">>].v[<<"a">>].v = {<<"a">>, <<"b">>}

(***************************************************************************)
(* C2.  A bare block (no names) with an object body merges its fields into *)
(* the mapping of its keyword: the fields already there, from earlier bare *)
(* or named blocks, are kept unless the body has a field of the same name, *)
(* and nothing else of the document changes.                               *)
(***************************************************************************)
C2_BareBlocksMerge ==
  [][ ( /\ status = "parsing" /\ status' = "parsing"
        /\ Len(blocks') = Len(blocks) + 1
        /\ blocks'[Len(blocks')].names = << >>
        /\ blocks'[Len(blocks')].value.t = "obj" )
      => LET b   == blocks'[Len(blocks')]
             old == IF b.key \in DOMAIN result THEN result[b.key].v ELSE NoProps
         IN  /\ DOMAIN result' = DOMAIN result \cup {b.key}
             /\ \A k \in DOMAIN result \ {b.key} : result'[k] = result[k]
             /\ result'[b.key].t = "obj"
             /\ DOMAIN result'[b.key].v = DOMAIN old \cup DOMAIN b.value.v
             /\ \A f \in DOMAIN result'[b.key].v :
                  result'[b.key].v[f] = IF f \in DOMAIN b.value.v THEN b.value.v[f] ELSE old[f]
    ]_vars

\* r "b" { a = 1 }  then the bare  r { a = "s" b = 2 }: a is new, b is overwritten
C2_Witness ==
  /\ status = "returned"
  /\ written.fam = "blocks"
  /\ Len(blocks) = 2
  /\ blocks[1].key = blocks[2].key
  /\ blocks[1].names = << <<"b">> >>
  /\ blocks[2].names = << >>
  /\ blocks[2].value.t = "obj"
  /\ DOMAIN blocks[2].value.v = {<<"a">>, <<"b">>}
  /\ result[blocks[1].key].v[<<"b">>] = Num(Two)

(***************************************************************************)
(* C3.  The literals true and false are accepted wherever a value is       *)
(* allowed and give the Boolean: config { enabled = true disabled = false }*)
(* gives {config: {enabled: true, disabled: false}}, and the last element  *)
(* of [1, "two", 3.0, true] is the Boolean true.                           *)
(***************************************************************************)
C3_BooleansAccepted ==
  /\ (input = SampleBooleans /\ lexer = "parser.ts" /\ status \in {"returned", "threw"}) =>
       /\ status = "returned"
       /\ result = (<<"c">> :> Obj(<<"e">> :> [t |-> "bool", v |-> TRUE]
                                    @@ <<"d">> :> [t |-> "bool", v |-> FALSE]))
  /\ (input = SampleMixed /\ lexer = "parser.ts" /\ status \in {"returned", "threw"}) =>
       /\ status = "returned"
       /\ DocAt(result, <<"c">>, << <<"m">> >>).t = "arr"
       /\ DocAt(result, <<"c">>, << <<"m">> >>).v[4] = [t |-> "bool", v |-> TRUE]

(***************************************************************************)
(* C4.  Inside an object body  identifier { ... }  is a key with a nested  *)
(* object: config { database { host = "l" port = 5 } } gives               *)
(* {config: {database: {host: "l", port: 5}}}, and several nested blocks   *)
(* of one body each become a key of it.                                    *)
(***************************************************************************)
C4_NestedBlocks ==
  /\ (input = SampleNested /\ status \in {"returned", "threw"}) =>
       /\ status = "returned"
       /\ result = (<<"c">> :> Obj(<<"d">> :> Obj(<<"h">> :> Str(<<"l">>)
                                                   @@ <<"p">> :> Num([neg |-> FALSE, m |-> 5, e |-> 0]))))
  /\ (input = SampleNestedTwo /\ status \in {"returned", "threw"}) =>
       /\ status = "returned"
       /\ DOMAIN DocAt(result, <<"s">>, << >>).v = {<<"w">>, <<"a">>}

(***************************************************************************)
(* C9.  parseArray returns the element values in source order, whether or  *)
(* not a comma follows an element (also the last one); [] gives the empty  *)
(* sequence.                                                               *)
(***************************************************************************)
C9_ArrayOrder ==
  written.fam = "array" =>
    /\ status # "threw"
    /\ status = "returned" =>
         result = (<<"c">> :> Obj(<<"k">> :>
                     Arr([i \in 1..Len(written.elems) |-> written.elems[i].val])))

\* three elements: a comma after the first, none after the second, a trailing one
C9_Witness ==
  /\ written.fam = "array"
  /\ status = "returned"
  /\ Len(written.elems) = 3
  /\ written.comma = <<TRUE, FALSE, TRUE>>
  /\ written.elems[1] # written.elems[2]
  /\ Len(DocAt(result, <<"c">>, << <<"k">> >>).v) = 3

(***************************************************************************)
(* C10.  parseObject returns a mapping whose keys are the keys written,    *)
(* each with the value of its last occurrence; a repeated key is no error. *)
(***************************************************************************)
LastOf(fields, key) ==
  fields[CHOOSE i \in 1..Len(fields) :
           /\ fields[i].key = key
           /\ \A j \in (i + 1)..Len(fields) : fields[j].key # key].val.val

C10_LastWriteWins ==
  written.fam = "object" =>
    /\ status # "threw"
    /\ status = "returned" =>
         result = (<<"c">> :> Obj(<<"n">> :>
                     Obj([k \in {written.fields[i].key : i \in 1..Len(written.fields)} |->
                            LastOf(written.fields, k)])))

\* { a = 1 a = 2 .. } returned with a = 2
C10_Witness ==
  /\ written.fam = "object"
  /\ status = "returned"
  /\ Len(written.fields) >= 2
  /\ written.fields[1].key = <<"a">> /\ written.fields[1].val.val = Num(One)
  /\ written.fields[2].key = <<"a">> /\ written.fields[2].val.val = Num(Two)
  /\ \A i \in 3..Len(written.fields) : written.fields[i].key # <<"a">>
  /\ DocAt(result, <<"c">>, << <<"n">>, <<"a">> >>) = Num(Two)

(***************************************************************************)
(* Comments, as the sentences about them describe them.                    *)
(***************************************************************************)
\* a # or // at the start of a line or directly preceded by white space
CommentStart(s, k) == MarkerAt(s, k) > 0 /\ (k = 1 \/ s[k - 1] \in WhiteSpace)

\* position i lies in the text from a comment start through the end of its line
InLineComment(s, i) ==
  \E k \in 1..i :
    /\ CommentStart(s, k)
    /\ \A j \in k..i : s[j] \notin LineTerminator

\* the white-space character directly before a comment start
BlankBeforeComment(s, i) ==
  s[i] \in WhiteSpace /\ CommentStart(s, i + 1) /\ ~InLineComment(s, i)

\* s without the text of its line comments
RECURSIVE WithoutCommentText(_, _)
WithoutCommentText(s, i) ==
  IF i > Len(s) THEN << >>
  ELSE (IF InLineComment(s, i) THEN << >> ELSE <<s[i]>>) \o WithoutCommentText(s, i + 1)

\* s without the text of its line comments and the blank before each
RECURSIVE WithoutCommentAndBlank(_, _)
WithoutCommentAndBlank(s, i) ==
  IF i > Len(s) THEN << >>
  ELSE (IF InLineComment(s, i) \/ BlankBeforeComment(s, i) THEN << >> ELSE <<s[i]>>)
         \o WithoutCommentAndBlank(s, i + 1)

Tokenized == status \notin {"idle", "start"}

RECURSIVE InsideBlockComments(_, _)
InsideBlockComments(s, i) ==
  IF i > Len(s) THEN {}
  ELSE IF At(s, i, <<"/", "*">>) /\ FindLit(s, i + 2, <<"*", "/">>) > 0
       THEN ((i + 2)..(FindLit(s, i + 2, <<"*", "/">>) - 1))
              \cup InsideBlockComments(s, FindLit(s, i + 2, <<"*", "/">>) + 2)
       ELSE InsideBlockComments(s, i + 1)

C6_BlockCommentRemoved ==
  ( /\ Tokenized /\ lexer = "parser.ts"
    /\ \A k \in 1..Len(input) :
         MarkerAt(input, k) > 0 =>
           {k, k + MarkerAt(input, k) - 1} \subseteq InsideBlockComments(input, 1)
    /\ \A k \in 1..Len(StripBlockComments(input)) : MarkerAt(StripBlockComments(input), k) = 0 )
  => tokens = tokenize(StripBlockComments(input))

(***************************************************************************)
(* C7.  A double-quoted literal whose contents hold no quote gives exactly *)
(* one String token, whose value is the characters between the quotes,     *)
(* whatever they are.  (Stated for a text whose only quotes are those of   *)
(* the literal and that holds no comment marker outside it.)               *)
(***************************************************************************)
StringsOf(toks) == SelectSeq(toks, LAMBDA tok : tok.type = "string")

C7_StringLiteralKept ==
  Tokenized =>
    \A i, j \in 1..Len(input) :
      ( /\ i < j
        /\ {k \in 1..Len(input) : input[k] = "\""} = {i, j}
        /\ \A k \in 1..Len(input) : (k < i \/ k > j) => input[k] \notin {"#", "/", "*"} )
      => StringsOf(tokens) = << [type |-> "string", value |-> Slice(input, i + 1, j - 1)] >>

(***************************************************************************)
(* C8.  A negative literal is one Number token with the negative value:    *)
(* tokenize("-42 -3.14") is the two numbers -42 and -3.14, and             *)
(* parseHCL("config { temperature = -5 }") is {config: {temperature: -5}}. *)
(***************************************************************************)
C8_NegativeNumbers ==
  /\ (Tokenized /\ input = SampleNegatives) =>
       tokens = << [type |-> "number", value |-> [neg |-> TRUE, m |-> 42, e |-> 0]],
                   [type |-> "number", value |-> [neg |-> TRUE, m |-> 314, e |-> -2]] >>
  /\ (input = SampleNegative /\ status \in {"returned", "threw"}) =>
       /\ status = "returned"
       /\ result = (<<"c">> :> Obj(<<"t">> :> Num([neg |-> TRUE, m |-> 5, e |-> 0])))

(***************************************************************************)
(* parseHCL on a text that stops early: every non-empty prefix (the whole   *)
(* included) of the text of one block, of  c { k = [ .. ] }  and of         *)
(* c "n" { .. }.                                                            *)
(***************************************************************************)
\* the elements and fields of the texts that are cut or damaged
MaxCut == 2

InitCut ==
  \E lx \in Lexers : \E w \in Written(1, MaxCut, MaxCut) :
    \E k \in 1..Len(TextOf(w)) : Start(w, SubSeq(TextOf(w), 1, k), lx)

SpecCut == InitCut /\ [][Next]_vars

\* the tokens that the lexer in use makes of text
TokensOf(lx, text) == IF lx = "parser.ts" THEN tokenize(text) ELSE tokenize_lexer(text)

\* the tokens are a proper, non-empty prefix of the tokens of the whole text
\* that was written: they end inside its one block
EndsInside ==
  /\ Tokenized
  /\ written.fam # "text"
  /\ LET full == TokensOf(lexer, TextOf(written))
     IN  /\ tokens # << >>
         /\ Len(tokens) < Len(full)
         /\ SubSeq(full, 1, Len(tokens)) = tokens

(***************************************************************************)
(* C11.  When the tokens end inside a block (after the keyword or a name,  *)
(* in an open object or array, after a key or after its =), parseHCL       *)
(* returns no document: it throws, and the error is "Unexpected end of     *)
(* input".                                                                 *)
(***************************************************************************)
C11_EndOfInput ==
  EndsInside =>
    /\ status # "returned"
    /\ status = "threw" => error = EndOfInput

\* c { k = [ 1 ,   stopped after the comma, and the throw was made
C11_Witness ==
  /\ EndsInside
  /\ status = "threw"
  /\ written.fam = "array"
  /\ ValueIs(tokens[Len(tokens)], <<",">>)

(***************************************************************************)
(* parseHCL on an object one of whose keys has no = after it:              *)
(* c "n" { k1 = v1 k2 X v2 }  with X one of the texts of NotEquals in the   *)
(* place of the = of field at, and the text with the = for comparison.     *)
(***************************************************************************)
\* nothing, a symbol other than =, an identifier, a string, a number
NotEquals ==
  { << >>, <<",">>, <<"{">>, <<"}">>, <<"[">>, <<"]">>, <<"b">>, Q(<<"s">>), <<"1">> }

NoEqualsText(fields, at, x) ==
  <<"c", " ", "\"", "n", "\"", " ", "{", " ">>
    \o Join([i \in 1..Len(fields) |->
               fields[i].key \o <<" ">> \o (IF i = at THEN x ELSE <<"=">>) \o <<" ">>
                 \o fields[i].val.text],
            <<" ">>)
    \o <<" ", "}">>

InitNoEquals ==
  \E lx \in Lexers :
    \E fs \in SeqsUpTo([key : {<<"a">>, <<"b">>}, val : ElemDescs], MaxCut) :
      \E at \in 1..Len(fs) : \E x \in NotEquals \cup {<<"=">>} :
        Start([fam |-> "noequals", fields |-> fs, at |-> at, x |-> x],
              NoEqualsText(fs, at, x), lx)

SpecNoEquals == InitNoEquals /\ [][Next]_vars

\* the token that stands after the key of field at
AfterKey == TokensOf(lexer, written.x \o <<" ">> \o written.fields[written.at].val.text)[1]

MaxLead == 3

\* what may stand before the directive: a blank, a line break, the comments
\* "# c", "// c" with their line break, "/* c */", and the content x
LeadPieces ==
  { <<" ">>, <<"\n">>, <<"#", " ", "c", "\n">>, <<"/", "/", " ", "c", "\n">>, <<"/", "*", " ", "c", " ", "*", "/">>, <<"x">> }

\* the words after use: the service names, two of them in other letter
\* case, a name with a letter more, a part of a name, another word
Words ==
  { CloudFormation, Grafana, Kubernetes, <<"G", "R", "A", "F", "A", "N", "A">>, <<"K", "u", "b", "e", "r", "n", "e", "t", "e", "s">>,
    <<"g", "r", "a", "f", "a", "n", "a", "x">>, <<"g", "r", "a", "f">>, <<"t", "e", "r", "r", "a", "f", "o", "r", "m">> }

\* R { }
RestBlock == <<"R", " ", "{", " ", "}">>

\* the texts after the directive: nothing, a block, a block with a
\* hyphenated keyword, a block that is not closed
Rests == { << >>, RestBlock, <<"m", "-", "b", " ", "{", " ", "}">>, <<"r", " ", "{">> }

\* documents for the generic validator:  r { a = 1 },  r "a" { b = [ 1 ] },
\* r "a-b" { },  r { a-b = 1 },  r { a = [ 1 ] }  r "a" "b" { c-d = 2 },  r [ 1 ],  _r1 { }
ValidatorTexts ==
  { <<"r", " ", "{", " ", "a", " ", "=", " ", "1", " ", "}">>, <<"r", " ", "\"", "a", "\"", " ", "{", " ", "b", " ", "=", " ", "[", " ", "1", " ", "]", " ", "}">>, <<"r", " ", "\"", "a", "-", "b", "\"", " ", "{", " ", "}">>, <<"r", " ", "{", " ", "a", "-", "b", " ", "=", " ", "1", " ", "}">>,
    <<"r", " ", "{", " ", "a", " ", "=", " ", "[", " ", "1", " ", "]", " ", "}", "\n", "r", " ", "\"", "a", "\"", " ", "\"", "b", "\"", " ", "{", " ", "c", "-", "d", " ", "=", " ", "2", " ", "}">>,
    <<"r", " ", "[", " ", "1", " ", "]">>, <<"_", "r", "1", " ", "{", " ", "}">> }

GoodArgs == [input |-> ".hcl", output |-> ".yaml"]

NoDirective ==
  [fam |-> "file", lead |-> << >>, use |-> << >>, gap |-> << >>, word |-> << >>, trail |-> << >>,
   rest |-> << >>, args |-> GoodArgs, exists |-> TRUE]

\* the files: the directive after every arrangement of at most nLead
\* pieces; the directive in its variants; every service and none before every
\* rest; no directive before the validator texts; every pair of arguments
Files(nLead) ==
  {[NoDirective EXCEPT !.lead = Concat(ps), !.use = Use, !.gap = <<" ">>, !.word = Grafana,
                       !.trail = <<"\n">>, !.rest = RestBlock] :
     ps \in SeqsUpTo(LeadPieces, nLead)}
    \cup {[NoDirective EXCEPT !.use = u, !.gap = g, !.word = w, !.trail = t, !.rest = r] :
            u \in {Use, <<"U", "S", "E">>, <<"U", "s", "e">>},
            g \in {<< >>, <<" ">>, <<" ", "\n">>},
            w \in Words,
            t \in {<< >>, <<" ">>, <<"\n", "\n">>},
            r \in {<< >>, RestBlock}}
    \cup {[NoDirective EXCEPT !.use = Use, !.gap = <<" ">>, !.word = w, !.trail = <<"\n">>,
                              !.rest = r] :
            w \in {CloudFormation, Grafana, Kubernetes}, r \in Rests}
    \cup {[NoDirective EXCEPT !.rest = r] : r \in Rests \cup ValidatorTexts}
    \cup {[NoDirective EXCEPT !.rest = RestBlock, !.args = a, !.exists = e] :
            a \in [input : InputPaths, output : OutputPaths], e \in BOOLEAN}

FileText(w) == w.lead \o w.use \o w.gap \o w.word \o w.trail \o w.rest

InitApp ==
  \E lx \in Lexers : \E w \in Files(MaxLead) :
    /\ written = w
    /\ input = << >>
    /\ lexer = lx
    /\ tokens = << >>
    /\ pos = 1
    /\ result = NoProps
    /\ status = "idle"
    /\ error = NoError
    /\ blocks = << >>
    /\ app = [NoApp EXCEPT !.stage = "args", !.args = w.args, !.exists = w.exists,
                           !.file = FileText(w)]

parser == <<written, input, lexer, tokens, pos, result, status, error, blocks>>

\* lines 104-113: the catch block prints the message and exits with status 1
Catch(message) == app' = [app EXCEPT !.stage = "exited", !.stderr = message]

\* line 63: const args = cliArgsSchema.parse({ input, output })
CheckArgs ==
  /\ app.stage = "args"
  /\ IF ArgsOk(app.args)
       THEN app' = [app EXCEPT !.stage = "exists"]
       ELSE Catch("Invalid arguments")
  /\ UNCHANGED parser

\* lines 66-68: if (!(await fileExists(args.input))) throw
CheckExists ==
  /\ app.stage = "exists"
  /\ IF app.exists
       THEN app' = [app EXCEPT !.stage = "read"]
       ELSE Catch("Input file does not exist")
  /\ UNCHANGED parser

\* line 70: const hclContent = await Bun.file(args.input).text()
ReadFile ==
  /\ app.stage = "read"
  /\ app' = [app EXCEPT !.stage = "directive", !.hclContent = app.file]
  /\ UNCHANGED parser

\* line 73: const { serviceType, cleanedInput } = parseDirective(hclContent)
ParseDirective ==
  /\ app.stage = "directive"
  /\ app' = [app EXCEPT !.stage = "parse",
                        !.serviceType = parseDirective(app.hclContent).serviceType,
                        !.cleanedInput = parseDirective(app.hclContent).cleanedInput,
                        !.calls = Append(@, "parseDirective")]
  /\ UNCHANGED parser

\* line 76: parseHCL(cleanedInput) is entered
CallParseHCL ==
  /\ app.stage = "parse"
  /\ status = "idle"
  /\ input' = app.cleanedInput
  /\ status' = "start"
  /\ app' = [app EXCEPT !.calls = Append(@, "parseHCL")]
  /\ UNCHANGED <<written, lexer, tokens, pos, result, error, blocks>>

\* line 76: const data = the document that parseHCL returns
ParseReturns ==
  /\ app.stage = "parse"
  /\ status = "returned"
  /\ app' = [app EXCEPT !.stage = "validate", !.data = result]
  /\ UNCHANGED parser

\* line 76: parseHCL throws, the catch block takes over
ParseThrows ==
  /\ app.stage = "parse"
  /\ status = "threw"
  /\ Catch(error.msg)
  /\ UNCHANGED parser

\* lines 79-95: the validator of the service, or validateHCL.  The schemas of
\* the three services are not modelled: their validator passes or throws.
Validate ==
  /\ app.stage = "validate"
  /\ IF app.serviceType # Null
       THEN \E passes \in BOOLEAN :
              app' = [app EXCEPT !.calls = Append(@, ValidatorOf(app.serviceType)),
                                 !.stage = IF passes THEN "write" ELSE "exited",
                                 !.stderr = IF passes THEN @ ELSE "Service validation failed"]
       ELSE app' = [app EXCEPT !.calls = Append(@, "validateHCL"),
                               !.stage = IF ValidHCL(app.data) THEN "write" ELSE "exited",
                               !.stderr = IF ValidHCL(app.data) THEN @
                                          ELSE "Schema validation failed"]
  /\ UNCHANGED parser

\* lines 98-103: await writeYAML(data, args.output), which may fail to write
WriteYAML ==
  /\ app.stage = "write"
  /\ \E written_ok \in BOOLEAN :
       app' = [app EXCEPT !.calls = Append(@, "writeYAML"),
                          !.stage = IF written_ok THEN "done" ELSE "exited",
                          !.stderr = IF written_ok THEN @ ELSE "write failed"]
  /\ UNCHANGED parser

NextApp ==
  \/ CheckArgs \/ CheckExists \/ ReadFile \/ ParseDirective
  \/ CallParseHCL \/ Tokenize \/ TopLevelBlock \/ Finish \/ ParseReturns \/ ParseThrows
  \/ Validate \/ WriteYAML

SpecApp == InitApp /\ [][NextApp]_vars

(***************************************************************************)
(* What the file was written with, and what parseDirective made of it.     *)
(***************************************************************************)
\* parseDirective has returned
DirectiveParsed == app.stage \notin {"none", "args", "exists", "read", "directive"}

\* use, white space and a word stand in the file after its leading part
HasUse == written.use # << >> /\ written.gap # << >>

\* the word after use is a service name, in whatever letter case
WordIsService == \E k \in 1..Len(ServiceNames) : toLowerCase(written.word) = ServiceNames[k]

\* the leading part is white space and comments only: the one content
\* character x is not in it
LeadIsBlank == \A i \in 1..Len(written.lead) : written.lead[i] # "x"

(***************************************************************************)
(* C13.  When the file starts, after white space and comments, with use,   *)
(* white space and a service name in any letter case, parseDirective       *)
(* returns the name in lower case as serviceType and, as cleanedInput,     *)
(* the file without its leading part, the directive and the white space    *)
(* after the directive.                                                    *)
(***************************************************************************)
C13_DirectiveResult ==
  (DirectiveParsed /\ HasUse /\ WordIsService /\ LeadIsBlank) =>
    /\ app.serviceType = toLowerCase(written.word)
    /\ app.cleanedInput = written.rest

(***************************************************************************)
(* C14.  When parseDirective reports no service, cleanedInput is the file  *)
(* text itself; a directive that content precedes is not detected; and     *)
(* cleanedInput is always a suffix of the file text.                       *)
(***************************************************************************)
C14_NoDirectiveVerbatim ==
  DirectiveParsed =>
    /\ app.serviceType = Null => app.cleanedInput = app.hclContent
    /\ ~LeadIsBlank => (app.serviceType = Null /\ app.cleanedInput = app.hclContent)
    /\ Len(app.cleanedInput) <= Len(app.hclContent)
    /\ app.cleanedInput =
         Slice(app.hclContent, Len(app.hclContent) - Len(app.cleanedInput) + 1,
               Len(app.hclContent))

(***************************************************************************)
(* C15.  The directive is detected after any arrangement of white space    *)
(* and comments (# lines, // lines, block comments), blank lines and       *)
(* indentation between the comments included.                              *)
(***************************************************************************)
C15_AnyLeadingComments ==
  (DirectiveParsed /\ HasUse /\ WordIsService /\ LeadIsBlank) => app.serviceType # Null

(***************************************************************************)
(* C16.  A service is reported only when the word after use is one of the  *)
(* three names: after any other word (a name with a letter more, a part    *)
(* of a name, another word) no service is reported and the text is         *)
(* returned as it is.                                                      *)
(***************************************************************************)
C16_ExactServiceWord ==
  (DirectiveParsed /\ HasUse /\ ~WordIsService /\ LeadIsBlank) =>
    /\ app.serviceType = Null
    /\ app.cleanedInput = app.hclContent

(***************************************************************************)
(* The calls that one conversion has made.                                 *)
(***************************************************************************)
Validators == {"validateCloudFormation", "validateGrafana", "validateKubernetes", "validateHCL"}

\* how many of the calls made so far went to a function of the set
Calls(names) == Cardinality({i \in 1..Len(app.calls) : app.calls[i] \in names})

\* validation has been reached: a validator was called
Validated == Calls(Validators) > 0

(***************************************************************************)
(* C17.  In one conversion parseDirective is called once at most, parseHCL *)
(* is given cleanedInput, and once validation is reached exactly one       *)
(* validator has run, on the document parseHCL returned: the one of the    *)
(* service when a service was detected, validateHCL when and only when     *)
(* none was.                                                               *)
(***************************************************************************)
C17_OneValidator ==
  /\ Calls({"parseDirective"}) <= 1
  /\ Calls({"parseHCL"}) <= 1
  /\ Calls({"parseHCL"}) = 1 => (Calls({"parseDirective"}) = 1 /\ input = app.cleanedInput)
  /\ Calls(Validators) <= 1
  /\ app.stage \in {"write", "done"} => Validated
  /\ Validated =>
       /\ status = "returned"
       /\ app.data = result
       /\ Calls({"validateHCL"}) = 1 <=> app.serviceType = Null
       /\ app.serviceType # Null => Calls({ValidatorOf(app.serviceType)}) = 1
       /\ app.serviceType # Null => app.serviceType \in {CloudFormation, Grafana, Kubernetes}

\* use kubernetes before R { }: the parser got R { } only, validateKubernetes ran
C17_Witness ==
  /\ app.stage = "done"
  /\ app.serviceType = Kubernetes
  /\ input # app.hclContent
  /\ app.calls = <<"parseDirective", "parseHCL", "validateKubernetes", "writeYAML">>

(***************************************************************************)
(* C18.  writeYAML is called only after the arguments were accepted, the   *)
(* file was found, the directive was parsed, parseHCL returned and the     *)
(* validator passed, in that order; when a step before it fails it is      *)
(* never called, a message is printed and the program exits with status 1. *)
(***************************************************************************)
\* the input path ends in .hcl or .tf, the output path in .yaml or .yml
ArgsAccepted ==
  /\ written.args.input \in {".hcl", ".tf"}
  /\ written.args.output \in {".yaml", ".yml"}

C18_WriteLast ==
  /\ Calls({"writeYAML"}) > 0 =>
       /\ ArgsAccepted
       /\ app.exists
       /\ status = "returned"
       /\ Len(app.calls) = 4
       /\ SubSeq(app.calls, 1, 2) = <<"parseDirective", "parseHCL">>
       /\ app.calls[3] \in Validators
       /\ app.calls[4] = "writeYAML"
       /\ app.calls[3] = "validateHCL" => ValidHCL(app.data)
       /\ app.stderr \in {"", "write failed"}
  /\ (~ArgsAccepted \/ ~app.exists \/ status = "threw"
        \/ (Calls({"validateHCL"}) > 0 /\ ~ValidHCL(app.data))
        \/ app.stderr \notin {"", "write failed"}) =>
       /\ Calls({"writeYAML"}) = 0
       /\ app.stage # "done"
  /\ app.stage = "exited" => app.stderr # ""
  /\ app.stage = "done" => app.stderr = ""

\* a file that is missing: the program has exited with its message, nothing
\* was parsed or written
C18_Witness ==
  /\ app.stage = "exited"
  /\ ArgsAccepted
  /\ ~app.exists
  /\ app.stderr = "Input file does not exist"
  /\ app.calls = << >>

(***************************************************************************)
(* C19.  validateHCL throws "Schema validation failed" exactly when some   *)
(* key of a mapping of the document, at any depth (through mappings and    *)
(* array elements), is no identifier of letters, digits and underscores;   *)
(* so the document of a block with a hyphenated keyword is rejected, the   *)
(* empty document and nested mappings under identifier keys are accepted.  *)
(***************************************************************************)
RECURSIVE KeysIn(_)
KeysIn(x) ==
  CASE x.t = "obj" -> DOMAIN x.v \cup UNION {KeysIn(x.v[k]) : k \in DOMAIN x.v}
    [] x.t = "arr" -> UNION {KeysIn(x.v[i]) : i \in 1..Len(x.v)}
    [] OTHER       -> {}

\* all the mapping keys of a document
DocKeys(doc) == KeysIn(Obj(doc))

Rejected == app.stage = "exited" /\ app.stderr = "Schema validation failed"

C19_IdentifierKeys ==
  Calls({"validateHCL"}) > 0 =>
    /\ Rejected <=> \E k \in DocKeys(app.data) : ~IsIdentifierKey(k)
    /\ written.rest = <<"m", "-", "b", " ", "{", " ", "}">> => Rejected
    /\ app.data = NoProps => ~Rejected

\* r { a-b = 1 }: the bad key is one level down, and the validator threw
C19_Witness ==
  /\ Rejected
  /\ \A k \in DOMAIN app.data : IsIdentifierKey(k)
  /\ \E k \in DocKeys(app.data) : ~IsIdentifierKey(k)

(***************************************************************************)
(* The tokenizers on texts with characters that start no token: every      *)
(* concatenation of at most MaxJunk of the pieces below.                   *)
(***************************************************************************)
MaxJunk == 4

JunkPieces ==
  { <<"a">>, <<"1">>, <<"=">>, <<" ">>, <<"\n">>, <<"@">>, <<":">>, <<"-">>, <<"\"">> }

InitJunk ==
  \E lx \in Lexers : \E ps \in SeqsUpTo(JunkPieces, MaxJunk) :
    Start(NoWritten, Concat(ps), lx)

SpecJunk == InitJunk /\ [][Next]_vars

\* a - that is no sign and no part of an identifier: nothing that could be
\* an identifier stands before it, no digit after it
LoneMinus(s, i) ==
  /\ s[i] = "-"
  /\ i = 1 \/ s[i - 1] \in WhiteSpace \cup {"=", "@", ":", "\""}
  /\ i = Len(s) \/ s[i + 1] \notin Digit

\* s with a blank in the place of every @ and :, of every lone - and of
\* every double quote
Blanked(s) ==
  [i \in 1..Len(s) |->
     IF s[i] \in {"@", ":", "\""} \/ LoneMinus(s, i) THEN " " ELSE s[i]]

\* s has one double quote at most, which then closes no string literal
NoStringIn(s) == Cardinality({i \in 1..Len(s) : s[i] = "\""}) <= 1

(***************************************************************************)
(* C20.  tokenize returns a token sequence for every text.  A character    *)
(* that starts no token (@, :, a lone ", a lone -) is skipped: the tokens  *)
(* are those of the text with a blank in its place, so the tokens around   *)
(* it are the same and none is added.  A text of white space only, the     *)
(* empty text included, gives no token.                                    *)
(***************************************************************************)
C20_JunkSkipped ==
  Tokenized =>
    /\ NoStringIn(input) => tokens = TokensOf(lexer, Blanked(input))
    /\ (\A i \in 1..Len(input) : input[i] \in WhiteSpace) => tokens = << >>

\* a@-= : both kinds of character between two tokens
C20_Witness ==
  /\ Tokenized
  /\ lexer = "parser.ts"
  /\ NoStringIn(input)
  /\ \E i \in 1..Len(input) : input[i] = "@"
  /\ \E i \in 1..Len(input) : LoneMinus(input, i)
  /\ Len(tokens) = 2

(***************************************************************************)
(* C21.  A top-level attribute  identifier = value  is accepted: parseHCL  *)
(* returns a document that holds the value under the identifier, next to   *)
(* the entries of the blocks that follow.                                  *)
(***************************************************************************)
C21_TopLevelAttribute ==
  (input = SampleAttribute /\ status \in {"returned", "threw"}) =>
    /\ status = "returned"
    /\ DocAt(result, <<"A">>, << >>) = Str(<<"2">>)
    /\ DocAt(result, <<"R">>, << >>) = EmptyObj

(***************************************************************************)
(* C22.  Every top-level key of the document, at every moment of the       *)
(* parse, is the value of an Identifier token of the input: a letter or    *)
(* underscore followed by letters, digits, underscores and hyphens.  A     *)
(* string, a number, a boolean or a symbol where the keyword is expected   *)
(* gives no key.                                                           *)
(***************************************************************************)
C22_KeysAreIdentifiers ==
  \A k \in DOMAIN result :
    /\ \E i \in 1..Len(tokens) : tokens[i].type = "identifier" /\ tokens[i].value = k
    /\ Len(k) >= 1
    /\ k[1] \in IdentStart
    /\ \A j \in 2..Len(k) : k[j] \in IdentPart

\* r { } then "s" { }: the first block is in the document, the string made
\* parseHCL throw
C22_Witness ==
  /\ status = "threw"
  /\ DOMAIN result = {<<"r">>}
  /\ Len(tokens) = 6
  /\ tokens[4].type = "string"
  /\ error = ExpectedType("identifier", "string")

(***************************************************************************)
(* C23.  When the last two blocks have the same keyword and the same       *)
(* chain of non-empty names, the document returned holds at that path the  *)
(* body of the later block and nothing else: the earlier body is replaced  *)
(* as a whole, its fields are not merged in.                               *)
(***************************************************************************)
\* the last two blocks written have one path, with names that are not empty
SamePathTwice ==
  /\ written.fam = "blocks"
  /\ Len(written.blocks) >= 2
  /\ LET n == Len(written.blocks)
     IN  /\ PathOf(written.blocks[n - 1]) = PathOf(written.blocks[n])
         /\ Len(written.blocks[n].names) >= 1
         /\ \A j \in 1..Len(written.blocks[n].names) : written.blocks[n].names[j] # << >>

C23_LaterBodyReplaces ==
  (SamePathTwice /\ status = "returned") =>
    LET n == Len(written.blocks)
    IN  /\ Len(blocks) = n
        /\ DocAt(result, written.blocks[n].kw, written.blocks[n].names) = blocks[n].value

\* r "a" "b" { a = "s" b = 2 }  then  r "a" "b" { a = 1 }: no b is left
C23_Witness ==
  /\ SamePathTwice
  /\ status = "returned"
  /\ Len(blocks) = 2
  /\ blocks[1].names = << <<"a">>, <<"b">> >>
  /\ <<"b">> \in DOMAIN Props(blocks[1].value)
  /\ <<"b">> \notin DOMAIN Props(blocks[2].value)
  /\ <<"b">> \notin DOMAIN Props(DocAt(result, <<"r">>, blocks[2].names))

(***************************************************************************)
(* The tokenizers on words: every concatenation of at most MaxWordParts of *)
(* the parts below, so that true and false stand alone, at the start, in   *)
(* the middle and at the end of longer words.                              *)
(***************************************************************************)
MaxWordParts == 4

True == <<"t", "r", "u", "e">>

False == <<"f", "a", "l", "s", "e">>

WordParts == { True, False, <<"x">>, <<"_">>, <<"-">>, <<"1">>, <<" ">> }

InitWords ==
  \E lx \in Lexers : \E ps \in SeqsUpTo(WordParts, MaxWordParts) :
    Start(NoWritten, Concat(ps), lx)

SpecWords == InitWords /\ [][Next]_vars

\* the maximal runs of characters other than the blank, from position i on
RECURSIVE WordsFrom(_, _)
WordsFrom(s, i) ==
  LET b == SkipClass(s, i, {" "})
      e == FindClass(s, b, {" "})
  IN  IF b > Len(s) THEN << >> ELSE <<Slice(s, b, e - 1)>> \o WordsFrom(s, e)

\* the token of one identifier-shaped word
WordToken(w) ==
  IF w = True THEN [type |-> "boolean", value |-> TRUE]
  ELSE IF w = False THEN [type |-> "boolean", value |-> FALSE]
  ELSE [type |-> "identifier", value |-> w]

(***************************************************************************)
(* C24.  true and false are Boolean tokens only as whole words: in a text  *)
(* of identifier-shaped words (a letter or underscore, then letters,       *)
(* digits, underscores, hyphens) parted by blanks, tokenize (parser.ts)    *)
(* gives one token per word, a Boolean for the words true and false, one   *)
(* Identifier carrying the whole word for every other.                     *)
(***************************************************************************)
C24_WholeWordBooleans ==
  LET words == WordsFrom(input, 1)
  IN  (Tokenized /\ lexer = "parser.ts" /\ \A i \in 1..Len(words) : words[i][1] \in IdentStart) =>
        /\ Len(tokens) = Len(words)
        /\ \A i \in 1..Len(words) :
             /\ tokens[i].type = WordToken(words[i]).type
             /\ tokens[i].type = WordToken(words[i]).type => tokens[i].value = WordToken(words[i]).value

\* the greatest of a finite set of naturals, 0 for the empty set
Greatest(S) == IF S = {} THEN 0 ELSE CHOOSE m \in S : \A n \in S : n <= m

\* how deep the arrays and objects of a parsed value are nested
RECURSIVE Depth(_)
Depth(x) ==
  CASE x.t = "arr" -> 1 + Greatest({ Depth(x.v[i]) : i \in 1..Len(x.v) })
    [] x.t = "obj" -> 1 + Greatest({ Depth(x.v[k]) : k \in DOMAIN x.v })
    [] OTHER       -> 0

\* the number of array elements in a parsed value, nested ones included
RECURSIVE Elements(_)
Elements(x) ==
  LET RECURSIVE Sum(_)
      Sum(i) == IF i = 0 THEN 0 ELSE 1 + Elements(x.v[i]) + Sum(i - 1)
      RECURSIVE SumOver(_)
      SumOver(K) == IF K = {} THEN 0
                    ELSE LET k == CHOOSE k \in K : TRUE
                         IN  Elements(x.v[k]) + SumOver(K \ {k})
  IN  CASE x.t = "arr" -> Sum(Len(x.v))
        [] x.t = "obj" -> SumOver(DOMAIN x.v)
        [] OTHER       -> 0

(***************************************************************************)
(* C25.  parseHCL terminates: no step moves the cursor back; an iteration  *)
(* of the loop of parseTopLevel moves it forward or throws; from every     *)
(* position parseValue, and with it every iteration of the loops of        *)
(* parseArray and parseObject, leaves the cursor where it was only by a    *)
(* throw and otherwise moves it forward, within the tokens; the blocks     *)
(* processed, the elements collected and the nesting of a value are no     *)
(* more than the tokens consumed for them.                                 *)
(***************************************************************************)
C25_CursorAdvances ==
  [][ /\ pos' >= pos
      /\ (status = "parsing" /\ HasToken(tokens, pos)) => (pos' > pos \/ status' = "threw")
      /\ Len(blocks') <= Len(tokens')
      /\ Len(blocks') <= pos' - 1
      /\ tokens' # tokens => \A p \in 1..(Len(tokens') + 1) :
           LET v == parseValue(tokens', p)
           IN  /\ v.pos >= p
               /\ v.ok => /\ v.pos > p
                          /\ v.pos <= Len(tokens') + 1
                          /\ Depth(v.val) <= v.pos - p
                          /\ Elements(v.val) <= v.pos - p
               /\ (~v.ok /\ p <= Len(tokens') /\ tokens'[p].type = "symbol"
                         /\ tokens'[p].value \in {<<"{">>, <<"[">>}) => v.pos > p ]_vars

C25_Witness ==
  /\ status = "returned"
  /\ pos = Len(tokens) + 1
  /\ \E i \in 1..Len(blocks) :
       Elements(blocks[i].value) >= 2 /\ Depth(blocks[i].value) >= 2

(***************************************************************************)
(* C26.  When parseHCL returns a document the cursor stands just past the  *)
(* last token, and the tokens are exactly the tokens of the blocks it      *)
(* processed, one block after the other: each block is one Identifier, its *)
(* String names and the tokens of one value, and none is left over.        *)
(***************************************************************************)
C26_AllTokensConsumed ==
  LET RECURSIVE BlockStart(_)
      \* where block i starts if the blocks before it are the tokens before it
      BlockStart(i) ==
        IF i = 1 THEN 1
        ELSE parseValue(tokens, BlockStart(i - 1) + 1 + Len(blocks[i - 1].names)).pos
  IN  status = "returned" =>
        /\ pos = Len(tokens) + 1
        /\ BlockStart(Len(blocks) + 1) = Len(tokens) + 1
        /\ \A i \in 1..Len(blocks) :
             LET b == BlockStart(i)
                 v == parseValue(tokens, b + 1 + Len(blocks[i].names))
             IN  /\ b <= Len(tokens)
                 /\ tokens[b].type = "identifier"
                 /\ tokens[b].value = blocks[i].key
                 /\ b + Len(blocks[i].names) <= Len(tokens)
                 /\ \A j \in 1..Len(blocks[i].names) :
                      /\ tokens[b + j].type = "string"
                      /\ tokens[b + j].value = blocks[i].names[j]
                 /\ v.ok
                 /\ v.val = blocks[i].value

C26_Witness ==
  /\ status = "returned"
  /\ Len(blocks) = 2
  /\ blocks[1].names # << >>
  /\ pos = Len(tokens) + 1

\* f without its key k
Without(f, k) == [j \in DOMAIN f \ {k} |-> f[j]]

\* new differs from old only along names[i], names[i + 1], ...: the elements
\* and every property other than names[i] are the same, and so on below
RECURSIVE OnlyAlong(_, _, _, _)
OnlyAlong(old, new, names, i) ==
  \/ i > Len(names)
  \/ /\ Without(Props(new), names[i]) = Without(Props(old), names[i])
     /\ old.t = "arr" => (new.t = "arr" /\ new.v = old.v)
     /\ names[i] \in DOMAIN Props(old) =>
          /\ names[i] \in DOMAIN Props(new)
          /\ OnlyAlong(Props(old)[names[i]], Props(new)[names[i]], names, i + 1)

\* the step processes a block: the history grows by it
BlockStep == Len(blocks') = Len(blocks) + 1

(***************************************************************************)
(* C27.  A top-level block with keyword K leaves what the document holds   *)
(* under every other keyword as it was, and a named block changes, within  *)
(* doc[K], nothing off the path of its name chain: at every mapping on the *)
(* path the entries other than the next name of the chain are unchanged.   *)
(***************************************************************************)
C27_Frame ==
  [][ IF BlockStep
        THEN LET b   == blocks'[Len(blocks')]
                 old == IF b.key \in DOMAIN result THEN result[b.key] ELSE EmptyObj
             IN  /\ \A k \in DOMAIN result :
                      k # b.key => (k \in DOMAIN result' /\ result'[k] = result[k])
                 /\ DOMAIN result' \subseteq DOMAIN result \cup {b.key}
                 /\ (b.names # << >> /\ b.key \in DOMAIN result') =>
                      OnlyAlong(old, result'[b.key], b.names, 1)
        ELSE result' = result ]_vars

\* the messages of the syntax errors of parseHCL
SyntaxErrors == {"Unexpected end of input", "Expected type", "Expected value", "Unexpected token"}

\* a name of the chain of the last block but the last already holds a scalar,
\* or the mapping of the keyword itself does
ScalarOnChain ==
  /\ Len(blocks) >= 2
  /\ LET b == blocks[Len(blocks)]
     IN  \E i \in 1..Len(b.names) : \E j \in 1..(Len(blocks) - 1) :
           /\ \A m \in 1..Len(b.names) : b.names[m] # << >>
           /\ blocks[j].key = b.key
           /\ i < Len(b.names)
           /\ b.names[i] # << >>
           /\ blocks[j].names = SubSeq(b.names, 1, i - 1)
           /\ blocks[j].value.t = "obj"
           /\ b.names[i] \in DOMAIN blocks[j].value.v
           /\ Primitive(blocks[j].value.v[b.names[i]])

(***************************************************************************)
(* C28.  parseHCL returns a document or fails with one of its own syntax   *)
(* errors, whatever the blocks before stored: when a name on the chain of  *)
(* a block already holds a scalar, the block is still placed, a mapping    *)
(* standing at that name afterwards.                                       *)
(***************************************************************************)
C28_OnlySyntaxErrors ==
  /\ status = "threw" => error.msg \in SyntaxErrors
  /\ (ScalarOnChain /\ status \in {"returned", "threw"}) =>
       LET b == blocks[Len(blocks)]
       IN  /\ status = "returned"
           /\ DocAt(result, b.key, b.names) = b.value

(***************************************************************************)
(* Arrays and objects of string literals whose contents are the symbols of *)
(* the grammar: at most MaxStrings literals, a comma or none after each    *)
(* element of an array.                                                    *)
(***************************************************************************)
MaxStrings == 3

StringContents == { <<"a">>, <<"]">>, <<"}">>, <<",">>, <<"{">> }

FieldKeys == << <<"a">>, <<"b">>, <<"c">>, <<"d">>, <<"e">> >>

\* c { k = [ "e1" , "e2" "e3" ] }
StringArrayText(elems, comma) ==
  <<"c", " ", "{", " ", "k", " ", "=", " ", "[">>
    \o Join([i \in 1..Len(elems) |->
               Q(elems[i]) \o (IF comma[i] THEN <<",">> ELSE << >>)], <<" ">>)
    \o <<"]", " ", "}">>

\* c { a = "e1" b = "e2" }
StringObjectText(elems) ==
  <<"c", " ", "{", " ">>
    \o Join([i \in 1..Len(elems) |-> FieldKeys[i] \o <<" ", "=", " ">> \o Q(elems[i])], <<" ">>)
    \o <<" ", "}">>

InitStrings ==
  \E lx \in Lexers : \E k \in 0..MaxStrings : \E es \in [1..k -> StringContents] :
    \/ \E cs \in [1..k -> BOOLEAN] :
         Start([NoWritten EXCEPT !.fam = "strings", !.elems = es, !.comma = cs],
               StringArrayText(es, cs), lx)
    \/ Start([NoWritten EXCEPT !.fam = "stringfields", !.elems = es],
             StringObjectText(es), lx)

SpecStrings == InitStrings /\ [][Next]_vars

Parsed == status \in {"returned", "threw"}

(***************************************************************************)
(* C29.  Only Symbol tokens end a collection or separate its elements: an  *)
(* array of string literals parses to the sequence of exactly those        *)
(* strings, and an object of string fields to exactly those fields,        *)
(* whatever the strings contain, the strings "]", "}" and "," included.    *)
(***************************************************************************)
C29_StringsAreValues ==
  /\ (written.fam = "strings" /\ Parsed) =>
       /\ status = "returned"
       /\ DocAt(result, <<"c">>, << <<"k">> >>)
            = Arr([i \in 1..Len(written.elems) |-> Str(written.elems[i])])
  /\ (written.fam = "stringfields" /\ Parsed) =>
       /\ status = "returned"
       /\ DocAt(result, <<"c">>, << >>).t = "obj"
       /\ DOMAIN DocAt(result, <<"c">>, << >>).v = { FieldKeys[i] : i \in 1..Len(written.elems) }
       /\ \A i \in 1..Len(written.elems) :
            DocAt(result, <<"c">>, << FieldKeys[i] >>) = Str(written.elems[i])

\* the last block was parsed and placed, and no step threw
Placed == status = "returned" /\ Len(blocks) >= 1 /\ written.fam = "blocks"

(***************************************************************************)
(* C30.  Every String token of a name chain is one nesting level, the      *)
(* empty string too: after a document is returned the body of the last     *)
(* block stands at doc[K][n1]...[nk] for its whole chain n1..nk, so that   *)
(* K "" { body } is at doc[K][""] and K "" "x" { body } at                 *)
(* doc[K][""]["x"].                                                        *)
(***************************************************************************)
C30_EveryNameNests ==
  Placed =>
    LET b == blocks[Len(blocks)]
    IN  b.names # << >> => DocAt(result, b.key, b.names) = b.value

====
